---- MODULE Spec2Model ----
(***************************************************************************)
(* Healthcare waiting-time compliance dashboard (app.py) and its batch     *)
(* refresh script (refresh_pipeline.py).                                    *)
(*                                                                         *)
(* A cell of the loaded table is [ok, v]: ok = FALSE is a blank or          *)
(* unparseable cell, ok = TRUE carries the parsed value v.  A coerced       *)
(* (nullable) value is a set: {} is NaN / NaT, {v} is the value v.          *)
(* Timestamps of the date columns are ticks since a Monday 00:00, with      *)
(* TicksPerDay ticks per day; arrival / seen times are whole minutes.       *)
(* A percentage or a mean is the exact fraction [num, den].                 *)
(***************************************************************************)
EXTENDS Integers, Sequences, FiniteSets, TLC

VARIABLES raw, has_license, waiting_mode, target_minutes, alert_days,
          license_expiry_col, out, deck, pipe

vars == <<raw, has_license, waiting_mode, target_minutes, alert_days,
          license_expiry_col, out, deck, pipe>>

---------------------------------------------------------------------------
(* Bounds and program constants *)

MaxRows == 2

MaxDay == 7

TicksPerDay == 2

TodayDay == 21

DEFAULT_TARGET_MIN == 30

DEFAULT_ALERT_DAYS == 30

TARGET_MINUTES == 30

TargetValues == {DEFAULT_TARGET_MIN, 45}

AlertValues == {3, DEFAULT_ALERT_DAYS}

WaitingModes == {"Numeric minutes column", "Arrival & Seen times"}

---------------------------------------------------------------------------
(* Nullable values, fractions, string order *)

NaN == {}

Known(x) == x # {}

Val(x) == CHOOSE v \in x : TRUE

SetMax(S) == CHOOSE m \in S : \A x \in S : x <= m

Frac(n, d) == [num |-> n, den |-> d]

FracLess(a, b) == a.num * b.den < b.num * a.den

\* Leading code points of every string the tables sort by.  "Expiring Soon"
\* and "Expired" stand for the labels of app.py, which begin with the warning
\* sign U+26A0 U+FE0F and the no-entry sign U+26D4.
CodePoints(s) ==
    CASE s = "A" -> <<65>>
      [] s = "B" -> <<66>>
      [] s = "D1" -> <<68, 49>>
      [] s = "D2" -> <<68, 50>>
      [] s = "OK" -> <<79, 75>>
      [] s = "Unknown" -> <<85, 110>>
      [] s = "Expiring Soon" -> <<9888, 65039>>
      [] s = "Expired" -> <<9940, 32>>

RECURSIVE LexLess(_, _)
LexLess(a, b) ==
    IF b = <<>> THEN FALSE
    ELSE IF a = <<>> THEN TRUE
    ELSE IF Head(a) # Head(b) THEN Head(a) < Head(b)
    ELSE LexLess(Tail(a), Tail(b))

StrLess(a, b) == LexLess(CodePoints(a), CodePoints(b))

---------------------------------------------------------------------------
(* Helpers of app.py *)

coerce_datetime(c) == IF c.ok THEN {c.v} ELSE NaN

coerce_numeric(c) == IF c.ok THEN {c.v} ELSE NaN

\* Mutation: Sunday taken as day 0 of the week.
dayofweek_sunday_first(t) == ((t \div TicksPerDay) + 1) % 7

dayofweek(t) == (t \div TicksPerDay) % 7

normalize(t) == (t \div TicksPerDay) * TicksPerDay

infer_week_start(d) == normalize(d - dayofweek(d) * TicksPerDay)

today == normalize(TodayDay * TicksPerDay)

waiting_minutes(r, mode) ==
    IF mode = "Numeric minutes column"
    THEN coerce_numeric(r.minutes)
    ELSE LET s == coerce_datetime(r.start)
             e == coerce_datetime(r.seen)
         IN  IF Known(s) /\ Known(e) THEN {Val(e) - Val(s)} ELSE NaN

\* NaN <= target is False.
is_compliant(w, target) == Known(w) /\ Val(w) <= target

\* One row of df after "Prepare Data", before the dropna.
PrepareRow(r, mode, target) ==
    LET w == waiting_minutes(r, mode)
    IN  [visit_date |-> coerce_datetime(r.visit_date),
         department |-> IF r.department.ok THEN {r.department.v} ELSE NaN,
         doctor |-> IF r.doctor.ok THEN {r.doctor.v} ELSE NaN,
         waiting_minutes |-> w,
         is_compliant |-> is_compliant(w, target),
         license |-> r.license]

Prepare(rows, mode, target) ==
    [i \in 1..Len(rows) |-> PrepareRow(rows[i], mode, target)]

\* Mutation: the rows with a missing value are kept.
dropna_keeps_all(df, col) == df

dropna(df, col) == SelectSeq(df, LAMBDA r : Known(r[col]))

AddWeekStart(df) ==
    [i \in 1..Len(df) |->
        [week_start |-> IF Known(df[i].visit_date)
                        THEN {infer_week_start(Val(df[i].visit_date))}
                        ELSE NaN] @@ df[i]]

---------------------------------------------------------------------------
(* groupby / mean / count / max *)

RECURSIVE SortedInts(_)
SortedInts(S) ==
    IF S = {} THEN <<>>
    ELSE LET m == CHOOSE x \in S : \A y \in S : x <= y
         IN  <<m>> \o SortedInts(S \ {m})

RECURSIVE SortedStrs(_)
SortedStrs(S) ==
    IF S = {} THEN <<>>
    ELSE LET m == CHOOSE x \in S : \A y \in S : y = x \/ StrLess(x, y)
         IN  <<m>> \o SortedStrs(S \ {m})

\* The non-null values of a column: groupby drops NaN keys.
KeySet(df, col) == UNION {df[i][col] : i \in 1..Len(df)}

Group(df, col, k) == SelectSeq(df, LAMBDA r : r[col] = {k})

Count(g) == Len(g)

Sum(g) == Cardinality({i \in 1..Len(g) : g[i].is_compliant})

Mean(g) == Frac(Sum(g), Count(g))

Mul100(f) == Frac(100 * f.num, f.den)

\* max of a datetime column within a group, NaT skipped.
MaxExpiry(g) ==
    LET S == UNION {coerce_datetime(g[i].license) : i \in 1..Len(g)}
    IN  IF S = {} THEN NaN ELSE {SetMax(S)}

weekly_table(df) ==
    LET ks == SortedInts(KeySet(df, "week_start"))
    IN  [i \in 1..Len(ks) |->
            [week_start |-> ks[i],
             compliance_pct |-> Mul100(Mean(Group(df, "week_start", ks[i])))]]

dept_table(df) ==
    LET ks == SortedStrs(KeySet(df, "department"))
    IN  [i \in 1..Len(ks) |->
            [Department |-> ks[i],
             Compliance |-> Mul100(Mean(Group(df, "department", ks[i])))]]

doctor_agg(df) ==
    LET ks == SortedStrs(KeySet(df, "doctor"))
    IN  [i \in 1..Len(ks) |->
            LET g == Group(df, "doctor", ks[i])
            IN  [Doctor |-> ks[i],
                 Visits |-> Count(g),
                 Compliance |-> Mul100(Mean(g))]]

---------------------------------------------------------------------------
(* Licensing *)

DaysToExpiry(expiry) ==
    IF Known(expiry) THEN {(Val(expiry) - today) \div TicksPerDay} ELSE NaN

\* Mutation: a license expiring today counts as expired.
risk_label_expired_today(d, alert) ==
    IF ~Known(d) THEN "Unknown"
    ELSE IF Val(d) <= 0 THEN "Expired"
    ELSE IF Val(d) <= alert THEN "Expiring Soon"
    ELSE "OK"

risk_label(d, alert) ==
    IF ~Known(d) THEN "Unknown"
    ELSE IF Val(d) < 0 THEN "Expired"
    ELSE IF Val(d) <= alert THEN "Expiring Soon"
    ELSE "OK"

\* Mutation: the days are counted from the end of the alert window.
licensing_from_alert_window(df, doctor, lic_col, alert) ==
    [i \in 1..Len(doctor) |->
        IF lic_col
        THEN LET e == MaxExpiry(Group(df, "doctor", doctor[i].Doctor))
                 d == IF Known(e) THEN {Val(DaysToExpiry(e)) - alert} ELSE NaN
             IN  [License_Expiry |-> e, Days_to_Expiry |-> d,
                  Risk |-> risk_label(DaysToExpiry(e), alert)] @@ doctor[i]
        ELSE [License_Expiry |-> NaN, Days_to_Expiry |-> NaN,
              Risk |-> "Unknown"] @@ doctor[i]]

licensing(df, doctor, lic_col, alert) ==
    [i \in 1..Len(doctor) |->
        IF lic_col
        THEN LET e == MaxExpiry(Group(df, "doctor", doctor[i].Doctor))
                 d == DaysToExpiry(e)
             IN  [License_Expiry |-> e, Days_to_Expiry |-> d,
                  Risk |-> risk_label(d, alert)] @@ doctor[i]
        ELSE [License_Expiry |-> NaN, Days_to_Expiry |-> NaN,
              Risk |-> "Unknown"] @@ doctor[i]]

\* sort_values(["Risk", "Compliance %"], ascending=[True, False])
RowBefore(a, b) ==
    \/ StrLess(a.Risk, b.Risk)
    \/ a.Risk = b.Risk /\ FracLess(b.Compliance, a.Compliance)

RECURSIVE Insert(_, _)
Insert(sorted, r) ==
    IF sorted = <<>> THEN <<r>>
    ELSE IF RowBefore(r, Head(sorted)) THEN <<r>> \o sorted
    ELSE <<Head(sorted)>> \o Insert(Tail(sorted), r)

RECURSIVE sort_values(_)
sort_values(t) ==
    IF t = <<>> THEN <<>>
    ELSE Insert(sort_values(SubSeq(t, 1, Len(t) - 1)), t[Len(t)])

risky_only(doctor) ==
    SelectSeq(doctor, LAMBDA r : r.Risk \in {"Expired", "Expiring Soon"})

---------------------------------------------------------------------------
(* One run of the app.py script *)

\* Mutation: 1.0 - mean * 100 in place of (1.0 - mean) * 100.
noncompliant_pct_misplaced_scale(df) ==
    IF Len(df) > 0
    THEN LET m == Mean(df) IN Frac(m.den - 100 * m.num, m.den)
    ELSE Frac(0, 1)

noncompliant_pct(df) ==
    IF Len(df) > 0
    THEN LET m == Mean(df) IN Frac(100 * (m.den - m.num), m.den)
    ELSE Frac(0, 1)

AppRun(rows, mode, target, alert, lic_col) ==
    LET df == AddWeekStart(dropna(Prepare(rows, mode, target), "visit_date"))
        doctor == licensing(df, doctor_agg(df), lic_col, alert)
    IN  [df |-> df,
         total_visits |-> Len(df),
         noncompliant_pct |-> noncompliant_pct(df),
         weekly |-> weekly_table(df),
         dept |-> dept_table(df),
         doctor |-> doctor,
         shown |-> sort_values(doctor),
         risky_only |-> risky_only(doctor)]

NoDeck == [created |-> FALSE, no_risks_text |-> FALSE, lines |-> <<>>]

\* The "Doctor Licensing Risks" slide of make_powerpoint.
make_powerpoint(doc_df) ==
    [created |-> TRUE,
     no_risks_text |-> (doc_df = <<>>),
     lines |-> [i \in 1..Len(doc_df) |->
                  [Doctor |-> doc_df[i].Doctor,
                   License_Expiry |-> doc_df[i].License_Expiry,
                   Risk |-> doc_df[i].Risk]]]

\* doctor[["Doctor", "License Expiry", "Risk"]], the table the handler passes.
PptxDoctorArg(o) == o.doctor

---------------------------------------------------------------------------
(* refresh_pipeline.py *)

NotRun == [status |-> "not run", weekly |-> <<>>, dept |-> <<>>,
           doctor_written |-> FALSE, doctor |-> <<>>]

PipeLicensing(df, doctor) ==
    [i \in 1..Len(doctor) |->
        LET e == MaxExpiry(Group(df, "doctor", doctor[i].Doctor))
        IN  [License_Expiry |-> e, Days_to_Expiry |-> DaysToExpiry(e)]
                @@ doctor[i]]

main(rows, lic_present) ==
    LET df == AddWeekStart(Prepare(rows, "Numeric minutes column", TARGET_MINUTES))
    IN  IF lic_present
        THEN [status |-> "complete",
              weekly |-> weekly_table(df),
              dept |-> dept_table(df),
              doctor_written |-> TRUE,
              doctor |-> PipeLicensing(df, doctor_agg(df))]
        ELSE [status |-> "KeyError",
              weekly |-> weekly_table(df),
              dept |-> dept_table(df),
              doctor_written |-> FALSE,
              doctor |-> <<>>]

---------------------------------------------------------------------------
(* Loaded datasets *)

Blank == [ok |-> FALSE, v |-> 0]

BlankStr == [ok |-> FALSE, v |-> ""]

Cell(x) == [ok |-> TRUE, v |-> x]

Tuesday == TicksPerDay + 1

Wednesday == 2 * TicksPerDay

NextMonday == 7 * TicksPerDay

Departments == {BlankStr, Cell("A"), Cell("B")}

Doctors == {Cell("D1"), Cell("D2")}

\* minutes column / arrival / seen: 20, NaN, 40 minutes in the numeric mode
\* and 40, -5, NaN minutes in the arrival-and-seen mode.
Timings == <<[minutes |-> Cell(20), start |-> Cell(0), seen |-> Cell(40)],
             [minutes |-> Blank, start |-> Cell(10), seen |-> Cell(5)],
             [minutes |-> Cell(40), start |-> Blank, seen |-> Cell(5)]>>

\* Blank, expired since yesterday evening, expiring today, in 5 days.
Licenses == {Blank, Cell(today - 1), Cell(today),
             Cell(today + 5 * TicksPerDay + 1)}

\* Midnight of the days 0..MaxDay, and the last tick of the Mondays and
\* Sundays among them.
WeekDates ==
    {Cell(d * TicksPerDay) : d \in 0..MaxDay}
        \cup {Cell(d * TicksPerDay + TicksPerDay - 1) :
                d \in {x \in 0..MaxDay : x % 7 \in {0, 6}}}

RowsOf(dates, depts, docs, timings, lics) ==
    {[visit_date |-> d, department |-> p, doctor |-> c, license |-> l] @@ t :
        d \in dates, p \in depts, c \in docs, t \in timings, l \in lics}

Tables(Rows) == UNION {[1..n -> Rows] : n \in 1..MaxRows}

---------------------------------------------------------------------------
(* State machine: every interaction re-runs the script *)

\* lic_cols: whether the loaded table has a license-expiry column.
InitWith(Rows, lic_cols) ==
    /\ raw \in Tables(Rows)
    /\ has_license \in lic_cols
    /\ waiting_mode = "Numeric minutes column"
    /\ target_minutes = DEFAULT_TARGET_MIN
    /\ alert_days = DEFAULT_ALERT_DAYS
    /\ license_expiry_col = FALSE
    /\ out = AppRun(raw, waiting_mode, target_minutes, alert_days,
                    license_expiry_col)
    /\ deck = NoDeck
    /\ pipe = NotRun

Rerun ==
    /\ UNCHANGED <<raw, has_license, pipe>>
    /\ out' = AppRun(raw', waiting_mode', target_minutes', alert_days',
                     license_expiry_col')

SetWaitingMode ==
    /\ \E m \in WaitingModes \ {waiting_mode} : waiting_mode' = m
    /\ UNCHANGED <<target_minutes, alert_days, license_expiry_col>>
    /\ deck' = NoDeck
    /\ Rerun

SetTargetMinutes ==
    /\ \E t \in TargetValues \ {target_minutes} : target_minutes' = t
    /\ UNCHANGED <<waiting_mode, alert_days, license_expiry_col>>
    /\ deck' = NoDeck
    /\ Rerun

SetAlertDays ==
    /\ \E a \in AlertValues \ {alert_days} : alert_days' = a
    /\ UNCHANGED <<waiting_mode, target_minutes,
                   license_expiry_col>>
    /\ deck' = NoDeck
    /\ Rerun

SelectLicenseCol ==
    /\ \E c \in {FALSE, has_license} \ {license_expiry_col} :
            license_expiry_col' = c
    /\ UNCHANGED <<waiting_mode, target_minutes, alert_days>>
    /\ deck' = NoDeck
    /\ Rerun

CreatePPTX ==
    /\ ~deck.created
    /\ UNCHANGED <<waiting_mode, target_minutes, alert_days,
                   license_expiry_col>>
    /\ Rerun
    /\ deck' = make_powerpoint(PptxDoctorArg(out'))

RefreshPipeline ==
    /\ pipe.status = "not run"
    /\ pipe' = main(raw, has_license)
    /\ UNCHANGED <<raw, has_license, waiting_mode, target_minutes,
                   alert_days, license_expiry_col, out, deck>>

Next ==
    \/ SetWaitingMode
    \/ SetTargetMinutes
    \/ SetAlertDays
    \/ SelectLicenseCol
    \/ CreatePPTX
    \/ RefreshPipeline

\* Visits of two doctors of one department, in two weeks or undated.
Init ==
    InitWith(RowsOf({Blank, Cell(Tuesday), Cell(NextMonday)}, {Cell("A")},
                    Doctors, {Timings[1], Timings[2]}, {Blank}), {TRUE})

Spec == Init /\ [][Next]_vars

\* Visits of one doctor over the departments, with or without a license column.
InitDept ==
    InitWith(RowsOf({Blank, Cell(Tuesday)}, Departments, {Cell("D1")},
                    {Timings[1]}, {Blank}), BOOLEAN)

SpecDept == InitDept /\ [][Next]_vars

\* Visits of two doctors with every license date, and undated rows carrying
\* the latest one.
InitLicense ==
    InitWith(RowsOf({Cell(Tuesday)}, {Cell("A")}, Doctors, {Timings[1]}, Licenses)
                \cup RowsOf({Blank}, {Cell("A")}, Doctors, {Timings[1]},
                            {Cell(today + 5 * TicksPerDay + 1)}), {TRUE})

SpecLicense == InitLicense /\ [][Next]_vars

\* Visits on every day of a week and the Monday after.
InitWeek ==
    InitWith(RowsOf(WeekDates, {Cell("A")}, {Cell("D1")}, {Timings[1]},
                    {Blank}), {TRUE})

SpecWeek == InitWeek /\ [][Next]_vars

---------------------------------------------------------------------------
(* Properties *)

Rows(t) == {t[i] : i \in 1..Len(t)}

\* Indices of the loaded rows whose visit date parses.
Retained == {i \in 1..Len(raw) : raw[i].visit_date.ok}

PipelineRan == pipe.status # "not run"

WeekOf(t) == t \div (7 * TicksPerDay)

\* C1: a visit whose waiting_minutes is missing is left out of numerator and
\* denominator: every weekly, department and doctor row has compliance_pct =
\* 100 x (visits of the group with known waiting_minutes <= target_minutes)
\* / (visits of the group with known waiting_minutes).
C1_KnownOnly(col, k, pct) ==
    LET g == Group(out.df, col, k)
        kn == {i \in 1..Len(g) : Known(g[i].waiting_minutes)}
        le == {i \in kn : Val(g[i].waiting_minutes) <= target_minutes}
    IN  kn # {} =>
            pct.num * Cardinality(kn) = 100 * Cardinality(le) * pct.den

C1_MissingWaitExcluded ==
    /\ \A r \in Rows(out.weekly) :
            C1_KnownOnly("week_start", r.week_start, r.compliance_pct)
    /\ \A r \in Rows(out.dept) :
            C1_KnownOnly("department", r.Department, r.Compliance)
    /\ \A r \in Rows(out.doctor) :
            C1_KnownOnly("doctor", r.Doctor, r.Compliance)

\* C2: in the dashboard run and in the batch refresh, a row whose visit_date
\* is missing is counted in no weekly row, no department row, no doctor
\* row's Visits or License Expiry, and not in the total visit count.
C2_RetainedWith(col, k) == {i \in Retained : raw[i][col] = Cell(k)}

C2_LatestExpiry(k) ==
    LET S == {raw[i].license.v :
                i \in {j \in C2_RetainedWith("doctor", k) : raw[j].license.ok}}
    IN  IF S = {} THEN NaN ELSE {SetMax(S)}

C2_TablesCountRetained(weekly, dept) ==
    /\ \A r \in Rows(weekly) :
            r.compliance_pct.den =
                Cardinality({i \in Retained :
                    WeekOf(raw[i].visit_date.v) = WeekOf(r.week_start)})
    /\ \A r \in Rows(dept) :
            r.Compliance.den =
                Cardinality(C2_RetainedWith("department", r.Department))

C2_MissingDateDropped ==
    /\ out.total_visits = Cardinality(Retained)
    /\ C2_TablesCountRetained(out.weekly, out.dept)
    /\ \A r \in Rows(out.doctor) :
            /\ r.Visits = Cardinality(C2_RetainedWith("doctor", r.Doctor))
            /\ license_expiry_col => r.License_Expiry = C2_LatestExpiry(r.Doctor)
    /\ PipelineRan =>
            /\ C2_TablesCountRetained(pipe.weekly, pipe.dept)
            /\ \A r \in Rows(pipe.doctor) :
                    /\ r.Visits = Cardinality(C2_RetainedWith("doctor", r.Doctor))
                    /\ r.License_Expiry = C2_LatestExpiry(r.Doctor)

\* C3: Risk follows from days_to_expiry and alert_days by the four-branch
\* rule (undefined -> Unknown, < 0 -> Expired, 0..alert_days -> Expiring
\* Soon, > alert_days -> OK), days_to_expiry being the latest license_expiry
\* of the doctor's retained visits minus today, in whole days.
C3_Days(k) ==
    LET e == C2_LatestExpiry(k)
    IN  IF license_expiry_col /\ Known(e)
        THEN {(Val(e) - TodayDay * TicksPerDay) \div TicksPerDay}
        ELSE NaN

C3_RiskFourBranch ==
    \A r \in Rows(out.doctor) :
        LET d == r.Days_to_Expiry
        IN  /\ d = C3_Days(r.Doctor)
            /\ ~Known(d) => r.Risk = "Unknown"
            /\ Known(d) /\ Val(d) < 0 => r.Risk = "Expired"
            /\ Known(d) /\ 0 <= Val(d) /\ Val(d) <= alert_days =>
                    r.Risk = "Expiring Soon"
            /\ Known(d) /\ Val(d) > alert_days => r.Risk = "OK"

\* A license expiring in 5 days is OK at alert_days = 3 while another doctor's
\* license expires today.
C3_Witness ==
    /\ alert_days = 3
    /\ \E r \in Rows(out.doctor) : r.Days_to_Expiry = {5} /\ r.Risk = "OK"
    /\ \E r \in Rows(out.doctor) :
            r.Days_to_Expiry = {0} /\ r.Risk = "Expiring Soon"

\* C4: in the displayed doctor table no OK row stands above a row whose Risk
\* is Unknown, Expired or Expiring Soon, and rows of equal Risk are in
\* descending order of Compliance %.
C4_RiskyBeforeOK ==
    \A i, j \in 1..Len(out.shown) :
        i < j =>
            /\ ~(out.shown[i].Risk = "OK" /\ out.shown[j].Risk # "OK")
            /\ out.shown[i].Risk = out.shown[j].Risk =>
                    ~FracLess(out.shown[i].Compliance, out.shown[j].Compliance)

\* C5: the "Doctor Licensing Risks" slide has one line per doctor whose Risk
\* is Expired or Expiring Soon and no other line; without such a doctor it
\* says that no licensing risks were detected.
C5_AtRisk ==
    {r.Doctor : r \in {x \in Rows(out.doctor) :
                            x.Risk \in {"Expired", "Expiring Soon"}}}

C5_SlideListsOnlyAtRisk ==
    deck.created =>
        IF C5_AtRisk = {}
        THEN deck.no_risks_text /\ deck.lines = <<>>
        ELSE /\ ~deck.no_risks_text
             /\ Len(deck.lines) = Cardinality(C5_AtRisk)
             /\ {l.Doctor : l \in Rows(deck.lines)} = C5_AtRisk

\* C6: without a license-expiry field the run completes and still produces
\* the doctor table / CSV, every doctor row having missing License Expiry,
\* missing Days to Expiry and, in the dashboard, Risk = Unknown.
C6_NoLicenseFieldCompletes ==
    /\ ~license_expiry_col =>
            \A r \in Rows(out.doctor) :
                /\ r.License_Expiry = NaN
                /\ r.Days_to_Expiry = NaN
                /\ r.Risk = "Unknown"
    /\ PipelineRan /\ ~has_license =>
            /\ pipe.status = "complete"
            /\ pipe.doctor_written
            /\ \A r \in Rows(pipe.doctor) :
                    r.License_Expiry = NaN /\ r.Days_to_Expiry = NaN

\* C7 as stated: the visits grouped into the department rows sum to the total
\* visit count, every retained record (one with a missing department
\* included) lying in exactly one department row.
RECURSIVE C7_SumVisits(_)
C7_SumVisits(dept) ==
    IF dept = <<>> THEN 0
    ELSE Head(dept).Compliance.den + C7_SumVisits(Tail(dept))

C7_RowsHolding(i) ==
    {r \in Rows(out.dept) : raw[i].department = Cell(r.Department)}

C7_DeptVisitsSumToTotal ==
    /\ out.total_visits = Cardinality(Retained)
    /\ C7_SumVisits(out.dept) = out.total_visits
    /\ \A i \in Retained : Cardinality(C7_RowsHolding(i)) = 1

\* C7 amended: the visits grouped into the department rows sum to the number
\* of retained records whose department is present; such a record lies in
\* exactly one department row and a retained record with a missing
\* department lies in none.
C7_DeptVisitsSumToKnownDept ==
    /\ out.total_visits = Cardinality(Retained)
    /\ C7_SumVisits(out.dept) =
            Cardinality({i \in Retained : raw[i].department.ok})
    /\ \A i \in Retained :
            Cardinality(C7_RowsHolding(i)) = IF raw[i].department.ok THEN 1 ELSE 0

\* Two retained visits, one of them without a department.
C7_Witness ==
    /\ out.total_visits = 2
    /\ \E i \in Retained : ~raw[i].department.ok
    /\ Len(out.dept) = 1

\* C8: week_start of every retained visit is a Monday at midnight, not after
\* visit_date and less than 7 days before it; two visits share a week_start
\* exactly when they lie in the same Monday-to-Sunday week, which then forms
\* one weekly row.
C8_WeekStartIsMonday ==
    /\ \A r \in Rows(out.df) :
            LET d == Val(r.visit_date)
                w == Val(r.week_start)
            IN  /\ w % (7 * TicksPerDay) = 0
                /\ w <= d
                /\ d - w < 7 * TicksPerDay
    /\ \A r, q \in Rows(out.df) :
            (r.week_start = q.week_start) <=>
                (WeekOf(Val(r.visit_date)) = WeekOf(Val(q.visit_date)))
    /\ Len(out.weekly) =
            Cardinality({WeekOf(Val(r.visit_date)) : r \in Rows(out.df)})
    /\ \A r \in Rows(out.weekly) \cup Rows(pipe.weekly) :
            r.week_start % (7 * TicksPerDay) = 0

\* A Tuesday and a Wednesday visit of one week form the single weekly row of
\* that week's Monday.
C8_Witness ==
    /\ {Val(r.visit_date) : r \in Rows(out.df)} = {TicksPerDay, Wednesday}
    /\ Len(out.weekly) = 1
    /\ out.weekly[1].week_start = 0

\* C9: every weekly, department and doctor row has 0 <= compliance_pct <= 100
\* and the non-compliance KPI lies in [0, 100].
C9_InRange(pct) ==
    /\ pct.den > 0
    /\ 0 <= pct.num
    /\ pct.num <= 100 * pct.den

C9_PercentagesInRange ==
    /\ \A r \in Rows(out.weekly) : C9_InRange(r.compliance_pct)
    /\ \A r \in Rows(out.dept) \cup Rows(out.doctor) : C9_InRange(r.Compliance)
    /\ C9_InRange(out.noncompliant_pct)

\* A negative waiting time from the arrival-and-seen mode beside a late visit:
\* half of the visits comply.
C9_Witness ==
    /\ waiting_mode = "Arrival & Seen times"
    /\ \E r \in Rows(out.df) : Known(r.waiting_minutes) /\ Val(r.waiting_minutes) < 0
    /\ out.total_visits = 2
    /\ out.noncompliant_pct.num = 100

\* C10: a run that differs from the previous one in alert_days only leaves
\* the KPIs, the weekly and department tables and every doctor's Visits,
\* Compliance %, License Expiry and Days to Expiry as they were, and every
\* run's result is that of a first run on its dataset and configuration.
C10_WithoutRisk(o) ==
    [total_visits |-> o.total_visits,
     noncompliant_pct |-> o.noncompliant_pct,
     weekly |-> o.weekly,
     dept |-> o.dept,
     doctor |-> [i \in 1..Len(o.doctor) |->
                   [Doctor |-> o.doctor[i].Doctor,
                    Visits |-> o.doctor[i].Visits,
                    Compliance |-> o.doctor[i].Compliance,
                    License_Expiry |-> o.doctor[i].License_Expiry,
                    Days_to_Expiry |-> o.doctor[i].Days_to_Expiry]]]

C10_OnlyAlertDaysChanges ==
    /\ alert_days' # alert_days
    /\ UNCHANGED <<raw, has_license, waiting_mode, target_minutes,
                   license_expiry_col>>

C10_AlertDaysChangesOnlyRisk ==
    [][/\ C10_OnlyAlertDaysChanges =>
            C10_WithoutRisk(out') = C10_WithoutRisk(out)
       /\ out' = AppRun(raw', waiting_mode', target_minutes', alert_days',
                        license_expiry_col')]_vars

\* The license column is selected, alert_days has been moved to 3 and a
\* doctor's license runs out in 5 days.
C10_Witness ==
    /\ alert_days = 3
    /\ license_expiry_col
    /\ \E r \in Rows(out.doctor) : r.Days_to_Expiry = {5}
    /\ \E r \in Rows(out.doctor) : r.Risk = "Expired"

====
